---- MODULE Spec2Model ----
(***************************************************************************)
(* A model of the filesystem planning/execution engine of workPal           *)
(* (fs-tools: normalizeRoot, ensureWithinRoot, applyPlan and its helpers).  *)
(*                                                                         *)
(* Strings are sequences of one-character strings, so that the string      *)
(* operations of the code (startsWith, trim, split, indexOf, the path      *)
(* module's normalize/resolve/dirname) are computed character by           *)
(* character.  The host is POSIX: sep = "/".                               *)
(*                                                                         *)
(* The filesystem is a function from node keys to nodes.  A node key is    *)
(* the sequence of the names on the way from "/" to the node, each name a  *)
(* string; <<>> is "/" itself.  The calls of fs/promises the code makes    *)
(* (mkdir recursive, rename, rm recursive+force, stat, readFile,           *)
(* writeFile) are modelled with the host's path resolution, symbolic       *)
(* links included.                                                         *)
(***************************************************************************)
EXTENDS Integers, Sequences, FiniteSets, TLC

\* ------------------------------------------------------------------ bounds

\* Longest operation list of one plan invocation.
MaxOps == 2

\* Symbolic links followed in one path resolution before ELOOP.
MaxLinkDepth == 2

\* Longest file content given to the text substitution on its own.
MaxTextLen == 5

\* Longest search string or pattern source given to it.
MaxSearchLen == 2

\* Longest path given to the path sandbox on its own.
MaxPathLen == 5

\* Largest maxEntries given to listDirectory.
MaxEntries == 3

\* longest operation list of a plan over the project fixture
MaxPlanLen == 3

\* Most plans generated in one chat session.
MaxPlans == 2

\* Most times a plan is applied in one chat session.
MaxApplies == 2

\* Most appendLongTermMemory calls issued together by one turn.
MaxWrites == 3

\* Most calls of machine.step made by one run of the generator.
MaxAgentSteps == 12

\* Largest iteration a machine handed to runPiMachine starts with.
MaxStartIteration == 2

\* ----------------------------------------------------------------- strings

sep == "/"

IsSep(c) == c = "/" \/ c = "\\"

IsBlankChar(c) == c = " "

\* String.prototype.startsWith
StartsWith(s, p) == Len(p) <= Len(s) /\ SubSeq(s, 1, Len(p)) = p

\* String.prototype.endsWith, for a one-character suffix
EndsWithSep(s) == Len(s) > 0 /\ s[Len(s)] = sep

\* !relPath.trim(): the string is empty or all whitespace
IsBlank(s) == \A i \in 1..Len(s) : IsBlankChar(s[i])

\* .replace(/^[\\/]+/, ""): drop the leading separators
RECURSIVE StripLeadingSeps(_)
StripLeadingSeps(s) ==
    IF s # <<>> /\ IsSep(s[1]) THEN StripLeadingSeps(Tail(s)) ELSE s

\* s.split("/") without the empty pieces: the names of a path
RECURSIVE SplitFrom(_, _, _)
SplitFrom(s, i, cur) ==
    IF i > Len(s)
    THEN IF cur = <<>> THEN <<>> ELSE <<cur>>
    ELSE IF s[i] = sep
         THEN IF cur = <<>>
              THEN SplitFrom(s, i + 1, <<>>)
              ELSE <<cur>> \o SplitFrom(s, i + 1, <<>>)
         ELSE SplitFrom(s, i + 1, Append(cur, s[i]))

Segs(s) == SplitFrom(s, 1, <<>>)

\* names.join("/")
RECURSIVE JoinSegs(_)
JoinSegs(segs) ==
    IF segs = <<>> THEN <<>>
    ELSE IF Len(segs) = 1 THEN segs[1]
    ELSE segs[1] \o <<sep>> \o JoinSegs(Tail(segs))

Dot == <<".">>

DotDot == <<".", ".">>

\* path.posix normalizeString: resolve "." and ".." names; above the start,
\* ".." is kept when allowAboveRoot and dropped otherwise
RECURSIVE NormSegs(_, _, _)
NormSegs(segs, acc, allowAboveRoot) ==
    IF segs = <<>> THEN acc
    ELSE LET s == Head(segs)
             rest == Tail(segs)
         IN IF s = Dot THEN NormSegs(rest, acc, allowAboveRoot)
            ELSE IF s = DotDot
                 THEN IF acc # <<>> /\ acc[Len(acc)] # DotDot
                      THEN NormSegs(rest, SubSeq(acc, 1, Len(acc) - 1), allowAboveRoot)
                      ELSE IF allowAboveRoot
                           THEN NormSegs(rest, Append(acc, DotDot), allowAboveRoot)
                           ELSE NormSegs(rest, acc, allowAboveRoot)
                 ELSE NormSegs(rest, Append(acc, s), allowAboveRoot)

IsAbsolute(p) == p # <<>> /\ p[1] = sep

\* path.posix.normalize, given the normalized names joined (body)
NormalizeWith(p, body) ==
    IF body = <<>>
    THEN IF IsAbsolute(p) THEN <<sep>>
         ELSE IF EndsWithSep(p) THEN <<".", sep>> ELSE Dot
    ELSE (IF IsAbsolute(p) THEN <<sep>> ELSE <<>>) \o body
         \o (IF EndsWithSep(p) THEN <<sep>> ELSE <<>>)

PathNormalize(p) ==
    IF p = <<>> THEN Dot
    ELSE NormalizeWith(p, JoinSegs(NormSegs(Segs(p), <<>>, ~IsAbsolute(p))))

\* path.posix.resolve(base, p) for an absolute base: the rightmost absolute
\* argument wins, empty arguments are skipped, and the result is normalized
\* without a trailing separator
ResolveJoined(joined) == <<sep>> \o JoinSegs(NormSegs(Segs(joined), <<>>, FALSE))

PathResolve(base, p) ==
    ResolveJoined(IF p = <<>> THEN base
                  ELSE IF IsAbsolute(p) THEN p
                  ELSE base \o <<sep>> \o p)

\* path.posix.dirname of an absolute resolved path, given its names
DirnameOf(segs) ==
    IF Len(segs) <= 1 THEN <<sep>>
    ELSE <<sep>> \o JoinSegs(SubSeq(segs, 1, Len(segs) - 1))

PathDirname(p) == DirnameOf(Segs(p))

\* ------------------------------------------------------------ path sandbox

\* abs.endsWith(sep) ? abs : abs + sep
WithSep(abs) == IF EndsWithSep(abs) THEN abs ELSE abs \o <<sep>>

normalizeRoot(root) == WithSep(PathResolve(root, <<>>))

\* Errors are the messages the code throws: a code and the text it names.
NoErr == [code |-> "OK", arg |-> <<>>]

ErrEmptyPath == [code |-> "EmptyPath", arg |-> <<>>]

ErrPathEscape(relPath) == [code |-> "PathEscape", arg |-> relPath]

\* the containment test of ensureWithinRoot on the resolved path
WithinRoot(rootWithSep, relPath, abs) ==
    IF ~StartsWith(abs, rootWithSep)
    THEN [err |-> ErrPathEscape(relPath), abs |-> <<>>]
    ELSE [err |-> NoErr, abs |-> abs]

\* Faulty variant of ensureWithinRoot: the leading separators are not
\* stripped, so an absolute-looking path is resolved from "/".
ensureWithinRootNoStrip(rootWithSep, relPath) ==
    IF IsBlank(relPath)
    THEN [err |-> ErrEmptyPath, abs |-> <<>>]
    ELSE WithinRoot(rootWithSep, relPath,
                    PathResolve(rootWithSep, PathNormalize(relPath)))

\* ensureWithinRoot: [err, abs]; err = NoErr when abs is returned
ensureWithinRoot(rootWithSep, relPath) ==
    IF IsBlank(relPath)
    THEN [err |-> ErrEmptyPath, abs |-> <<>>]
    ELSE WithinRoot(rootWithSep, relPath,
                    PathResolve(rootWithSep, StripLeadingSeps(PathNormalize(relPath))))

\* -------------------------------------------------------------- filesystem

DirNode == [kind |-> "dir", data |-> <<>>, size |-> 0, target |-> <<>>]

FileNode(data, size) == [kind |-> "file", data |-> data, size |-> size, target |-> <<>>]

LinkNode(target) == [kind |-> "link", data |-> <<>>, size |-> 0, target |-> target]

HostErr(code, path) == [code |-> code, arg |-> path]

IsPrefix(k, l) == Len(k) <= Len(l) /\ SubSeq(l, 1, Len(k)) = k

\* k is a proper ancestor of l
IsAncestor(k, l) == Len(k) < Len(l) /\ IsPrefix(k, l)

\* The host's path resolution: walk the names of `rest` from the directory
\* `cur`, following a symbolic link at every name but the last, and at the
\* last one when followLast.  [code, key]: the key of the node the path
\* names (it need not exist: then its parent does, as a directory).
RECURSIVE Real(_, _, _, _, _)
Real(f, cur, rest, followLast, fuel) ==
    IF rest = <<>> THEN [code |-> "OK", key |-> cur]
    ELSE IF cur \notin DOMAIN f THEN [code |-> "ENOENT", key |-> cur]
    ELSE IF f[cur].kind # "dir" THEN [code |-> "ENOTDIR", key |-> cur]
    ELSE LET cand == Append(cur, Head(rest))
             last == Len(rest) = 1
         IN IF cand \in DOMAIN f /\ f[cand].kind = "link" /\ (~last \/ followLast)
            THEN IF fuel = 0 THEN [code |-> "ELOOP", key |-> cand]
                 ELSE LET t == Real(f, <<>>, f[cand].target, TRUE, fuel - 1)
                      IN IF t.code # "OK" THEN t
                         ELSE Real(f, t.key, Tail(rest), followLast, fuel)
            ELSE Real(f, cand, Tail(rest), followLast, fuel)

RealPath(f, abs, followLast) == Real(f, <<>>, Segs(abs), followLast, MaxLinkDepth)

\* The nodes that differ between two filesystems: created, removed, written
\* or renamed (a rename changes the node at its source and at its destination).
Changed(f, g) ==
    {k \in (DOMAIN f) \cup (DOMAIN g) :
        \/ k \notin DOMAIN f
        \/ k \notin DOMAIN g
        \/ f[k] # g[k]}

Restrict(f, keys) == [k \in keys |-> f[k]]

\* stat(abs): follows links; [err, node]
StatAt(f, abs, r) ==
    IF r.code # "OK" THEN [err |-> HostErr(r.code, abs), node |-> DirNode]
    ELSE IF r.key \notin DOMAIN f THEN [err |-> HostErr("ENOENT", abs), node |-> DirNode]
    ELSE [err |-> NoErr, node |-> f[r.key]]

FsStat(f, abs) == StatAt(f, abs, RealPath(f, abs, TRUE))

\* mkdir(abs, {recursive: true}): every missing directory on the way is
\* created; an existing directory is success.  A name on the way that is
\* a file, or a link that does not lead to a directory, fails, and then
\* nothing was created (what follows the first created directory is missing).
RECURSIVE MkdirWalk(_, _, _, _, _)
MkdirWalk(f, cur, rest, abs, fuel) ==
    IF rest = <<>> THEN [err |-> NoErr, fs |-> f]
    ELSE LET cand == Append(cur, Head(rest))
         IN IF cand \notin DOMAIN f
            THEN MkdirWalk([k \in (DOMAIN f) \cup {cand} |->
                               IF k = cand THEN DirNode ELSE f[k]],
                           cand, Tail(rest), abs, fuel)
            ELSE IF f[cand].kind = "dir"
                 THEN MkdirWalk(f, cand, Tail(rest), abs, fuel)
            ELSE IF f[cand].kind = "link"
                 THEN LET t == Real(f, <<>>, f[cand].target, TRUE, fuel)
                      IN IF t.code # "OK" \/ t.key \notin DOMAIN f
                         THEN [err |-> HostErr("ENOENT", abs), fs |-> f]
                         ELSE IF f[t.key].kind # "dir"
                              THEN [err |-> HostErr("ENOTDIR", abs), fs |-> f]
                              ELSE MkdirWalk(f, t.key, Tail(rest), abs, fuel)
            ELSE [err |-> HostErr(IF Len(rest) = 1 THEN "EEXIST" ELSE "ENOTDIR", abs),
                  fs |-> f]

\* Faulty variant of FsMkdirP: mkdir without { recursive: true }, which
\* fails on an existing directory and on a missing parent.
FsMkdirPlain(f, abs) ==
    IF RealPath(f, abs, TRUE).code # "OK"
    THEN [err |-> HostErr(RealPath(f, abs, TRUE).code, abs), fs |-> f]
    ELSE IF RealPath(f, abs, TRUE).key \in DOMAIN f
    THEN [err |-> HostErr("EEXIST", abs), fs |-> f]
    ELSE [err |-> NoErr,
          fs |-> [k \in (DOMAIN f) \cup {RealPath(f, abs, TRUE).key} |->
                    IF k \in DOMAIN f THEN f[k] ELSE DirNode]]

FsMkdirP(f, abs) == MkdirWalk(f, <<>>, Segs(abs), abs, MaxLinkDepth)

\* rename(from, to) of the host (POSIX): neither final name is followed.
\* rf and rt are the resolved source and destination.
RenameAt(f, from, to, rf, rt) ==
    IF rf.code # "OK" THEN [err |-> HostErr(rf.code, from), fs |-> f]
    ELSE IF rf.key \notin DOMAIN f THEN [err |-> HostErr("ENOENT", from), fs |-> f]
    ELSE IF rt.code # "OK" THEN [err |-> HostErr(rt.code, to), fs |-> f]
    ELSE IF rf.key = <<>> \/ rt.key = <<>> THEN [err |-> HostErr("EBUSY", from), fs |-> f]
    ELSE IF rf.key = rt.key THEN [err |-> NoErr, fs |-> f]
    ELSE IF f[rf.key].kind = "dir" /\ IsAncestor(rf.key, rt.key)
         THEN [err |-> HostErr("EINVAL", from), fs |-> f]
    ELSE IF rt.key \in DOMAIN f /\ f[rf.key].kind = "dir" /\ f[rt.key].kind # "dir"
         THEN [err |-> HostErr("ENOTDIR", to), fs |-> f]
    ELSE IF rt.key \in DOMAIN f /\ f[rf.key].kind # "dir" /\ f[rt.key].kind = "dir"
         THEN [err |-> HostErr("EISDIR", to), fs |-> f]
    ELSE IF rt.key \in DOMAIN f /\ (\E k \in DOMAIN f : IsAncestor(rt.key, k))
         THEN [err |-> HostErr("ENOTEMPTY", to), fs |-> f]
    ELSE LET moved == {k \in DOMAIN f : IsPrefix(rf.key, k)}
             dest(k) == rt.key \o SubSeq(k, Len(rf.key) + 1, Len(k))
             kept == (DOMAIN f) \ (moved \cup {rt.key})
             keys == kept \cup {dest(k) : k \in moved}
         IN [err |-> NoErr,
             fs |-> [k \in keys |->
                       IF k \in kept THEN f[k]
                       ELSE f[CHOOSE m \in moved : dest(m) = k]]]

FsRename(f, from, to) ==
    RenameAt(f, from, to, RealPath(f, from, FALSE), RealPath(f, to, FALSE))

\* rm(abs, {recursive: true, force: true}): the final name is not followed;
\* a missing target is success; removing "/" empties it and then fails.
RmAt(f, abs, r) ==
    IF r.code = "ENOENT" THEN [err |-> NoErr, fs |-> f]
    ELSE IF r.code # "OK" THEN [err |-> HostErr(r.code, abs), fs |-> f]
    ELSE IF r.key \notin DOMAIN f THEN [err |-> NoErr, fs |-> f]
    ELSE IF r.key = <<>>
         THEN [err |-> HostErr("EBUSY", abs), fs |-> Restrict(f, {<<>>})]
    ELSE [err |-> NoErr,
          fs |-> Restrict(f, {k \in DOMAIN f : ~IsPrefix(r.key, k)})]

FsRmRf(f, abs) == RmAt(f, abs, RealPath(f, abs, FALSE))

\* writeFile(abs, data, "utf-8"): follows links; creates the file when missing
WriteAt(f, abs, data, r) ==
    IF r.code # "OK" THEN [err |-> HostErr(r.code, abs), fs |-> f]
    ELSE IF r.key \in DOMAIN f /\ f[r.key].kind = "dir"
         THEN [err |-> HostErr("EISDIR", abs), fs |-> f]
    ELSE [err |-> NoErr,
          fs |-> [k \in (DOMAIN f) \cup {r.key} |->
                    IF k = r.key THEN FileNode(data, Len(data)) ELSE f[k]]]

FsWriteFile(f, abs, data) == WriteAt(f, abs, data, RealPath(f, abs, TRUE))

\* ------------------------------------------------------- text substitution

\* text.indexOf(search, idx), 0-based, -1 when absent
RECURSIVE IndexOf(_, _, _)
IndexOf(text, search, idx) ==
    IF idx + Len(search) > Len(text) THEN -1
    ELSE IF SubSeq(text, idx + 1, idx + Len(search)) = search THEN idx
    ELSE IndexOf(text, search, idx + 1)

\* the while loop of countMatchesLiteral, from position idx with `count` so far
RECURSIVE CountLiteralFrom(_, _, _, _)
CountLiteralFrom(text, search, idx, count) ==
    LET next == IndexOf(text, search, idx)
    IN IF next = -1 THEN count
       ELSE CountLiteralFrom(text, search, next + Len(search), count + 1)

countMatchesLiteral(text, search) ==
    IF search = <<>> THEN 0 ELSE CountLiteralFrom(text, search, 0, 0)

\* text.split(search): the pieces between the occurrences of search; an
\* empty search splits into the single characters
RECURSIVE SplitNonEmpty(_, _, _)
SplitNonEmpty(text, search, idx) ==
    LET next == IndexOf(text, search, idx)
    IN IF next = -1 THEN <<SubSeq(text, idx + 1, Len(text))>>
       ELSE <<SubSeq(text, idx + 1, next)>>
            \o SplitNonEmpty(text, search, next + Len(search))

\* Faulty variant of StrSplit: only the first occurrence separates.
StrSplitFirstOnly(text, search) ==
    IF search = <<>> THEN [i \in 1..Len(text) |-> <<text[i]>>]
    ELSE IF IndexOf(text, search, 0) = -1 THEN <<text>>
    ELSE <<SubSeq(text, 1, IndexOf(text, search, 0)),
           SubSeq(text, IndexOf(text, search, 0) + Len(search) + 1, Len(text))>>

StrSplit(text, search) ==
    IF search = <<>> THEN [i \in 1..Len(text) |-> <<text[i]>>]
    ELSE SplitNonEmpty(text, search, 0)

\* pieces.join(glue)
RECURSIVE StrJoin(_, _)
StrJoin(pieces, glue) ==
    IF pieces = <<>> THEN <<>>
    ELSE IF Len(pieces) = 1 THEN pieces[1]
    ELSE pieces[1] \o glue \o StrJoin(Tail(pieces), glue)

\* A regular expression of the modelled subset: a sequence of atoms, each a
\* literal character, starred or not.  ReParse is new RegExp(source): a "*"
\* with nothing to repeat is a SyntaxError.
RECURSIVE ReParseFrom(_, _)
ReParseFrom(src, i) ==
    IF i > Len(src) THEN [ok |-> TRUE, atoms |-> <<>>]
    ELSE IF src[i] = "*" THEN [ok |-> FALSE, atoms |-> <<>>]
    ELSE LET star == i < Len(src) /\ src[i + 1] = "*"
             rest == ReParseFrom(src, IF star THEN i + 2 ELSE i + 1)
         IN [ok |-> rest.ok,
             atoms |-> <<[c |-> src[i], star |-> star]>> \o rest.atoms]

ReParse(src) == ReParseFrom(src, 1)

ReFlagChars == {"d", "g", "i", "m", "s", "u", "v", "y"}

\* new RegExp accepts the flags: known letters, none twice
ReFlagsValid(flags) ==
    /\ \A i \in 1..Len(flags) : flags[i] \in ReFlagChars
    /\ \A i, j \in 1..Len(flags) : flags[i] = flags[j] => i = j

StrIncludes(s, c) == \E i \in 1..Len(s) : s[i] = c

\* length of the run of character c in text from 0-based position i
RECURSIVE RunLen(_, _, _)
RunLen(text, c, i) ==
    IF i < Len(text) /\ text[i + 1] = c THEN 1 + RunLen(text, c, i + 1) ELSE 0

\* Backtracking match of atoms[j..] at 0-based position i: the end position
\* of the match, or -1.  A star is greedy: the longest run first, then one
\* repetition fewer (n is the number of repetitions to try, -1 at first).
RECURSIVE ReMatch(_, _, _, _, _)
ReMatch(atoms, j, text, i, n) ==
    IF j > Len(atoms) THEN i
    ELSE IF atoms[j].star
         THEN LET k == IF n = -1 THEN RunLen(text, atoms[j].c, i) ELSE n
                  e == ReMatch(atoms, j + 1, text, i + k, -1)
              IN IF e # -1 THEN e
                 ELSE IF k = 0 THEN -1
                 ELSE ReMatch(atoms, j, text, i, k - 1)
         ELSE IF i < Len(text) /\ text[i + 1] = atoms[j].c
              THEN ReMatch(atoms, j + 1, text, i + 1, -1)
              ELSE -1

\* re.exec(text) of a global regex with lastIndex = li: the first match at or
\* after li, [index, end], or index = -1 (null); lastIndex becomes end
RECURSIVE ReExec(_, _, _)
ReExec(atoms, text, li) ==
    IF li > Len(text) THEN [index |-> -1, end |-> 0]
    ELSE LET e == ReMatch(atoms, 1, text, li, -1)
         IN IF e # -1 THEN [index |-> li, end |-> e]
            ELSE ReExec(atoms, text, li + 1)

Diverges == -1

\* countMatchesRegex: while (globalRe.exec(text)) count += 1.  exec leaves
\* lastIndex at the end of the match, so after an empty match the next exec
\* finds the same match again and the loop never ends: Diverges.
RECURSIVE CountRegexFrom(_, _, _, _)
CountRegexFrom(atoms, text, li, count) ==
    LET m == ReExec(atoms, text, li)
    IN IF m.index = -1 THEN count
       ELSE IF m.end = m.index THEN Diverges
       ELSE CountRegexFrom(atoms, text, m.end, count + 1)

countMatchesRegex(text, atoms) == CountRegexFrom(atoms, text, 0, 0)

\* GetSubstitution: "$$" is "$", "$&" is the matched text, the rest literal
RECURSIVE Substitution(_, _, _)
Substitution(replace, i, matched) ==
    IF i > Len(replace) THEN <<>>
    ELSE IF replace[i] = "$" /\ i < Len(replace) /\ replace[i + 1] = "$"
         THEN <<"$">> \o Substitution(replace, i + 2, matched)
    ELSE IF replace[i] = "$" /\ i < Len(replace) /\ replace[i + 1] = "&"
         THEN matched \o Substitution(replace, i + 2, matched)
    ELSE <<replace[i]>> \o Substitution(replace, i + 1, matched)

\* raw.replace(re, replace) of a global regex: every match is replaced, and
\* after an empty match the search resumes one character further
RECURSIVE ReReplaceFrom(_, _, _, _, _)
ReReplaceFrom(atoms, text, li, copied, replace) ==
    LET m == ReExec(atoms, text, li)
    IN IF m.index = -1 THEN SubSeq(text, copied + 1, Len(text))
       ELSE SubSeq(text, copied + 1, m.index)
            \o Substitution(replace, 1, SubSeq(text, m.index + 1, m.end))
            \o ReReplaceFrom(atoms, text,
                             IF m.end = m.index THEN m.end + 1 ELSE m.end,
                             m.end, replace)

ReReplace(text, atoms, replace) == ReReplaceFrom(atoms, text, 0, 0, replace)

\* ------------------------------------------------------ operation executor

\* st.size > 2 * 1024 * 1024
MaxReplaceSize == 2 * 1024 * 1024

\* op.flags when the caller gave none (typeof op.flags !== "string")
NoFlags == <<"undefined">>

MkdirOp(path) ==
    [op |-> "mkdir", path |-> path, from |-> <<>>, to |-> <<>>,
     mode |-> "", search |-> <<>>, replace |-> <<>>, flags |-> NoFlags]

DeleteOp(path) ==
    [op |-> "delete", path |-> path, from |-> <<>>, to |-> <<>>,
     mode |-> "", search |-> <<>>, replace |-> <<>>, flags |-> NoFlags]

MoveOp(from, to) ==
    [op |-> "move", path |-> <<>>, from |-> from, to |-> to,
     mode |-> "", search |-> <<>>, replace |-> <<>>, flags |-> NoFlags]

ReplaceTextOp(path, mode, search, replace, flags) ==
    [op |-> "replaceText", path |-> path, from |-> <<>>, to |-> <<>>,
     mode |-> mode, search |-> search, replace |-> replace, flags |-> flags]

\* an operation whose tag is none of the four
OtherOp(tag) ==
    [op |-> tag, path |-> <<>>, from |-> <<>>, to |-> <<>>,
     mode |-> "", search |-> <<>>, replace |-> <<>>, flags |-> NoFlags]

Call(name, path) == [call |-> name, path |-> path]

MutatingCalls == {"mkdir", "rename", "rm", "writeFile"}

\* What an exec* closure of applyPlan did: the error thrown (NoErr when
\* none), the filesystem afterwards, the fs/promises calls issued in order,
\* the preview lines pushed, and whether it never returned.
ExecOut(err, f, calls, pv, hung) ==
    [err |-> err, fs |-> f, calls |-> calls, pv |-> pv, hung |-> hung]

\* the path was rejected: nothing was called
Rejected(f, err) == ExecOut(err, f, <<>>, <<>>, FALSE)

\* a host call returned r = [err, fs]
Called(r, calls) == ExecOut(r.err, r.fs, calls, <<>>, FALSE)

MkdirChecked(f, e) ==
    IF e.err # NoErr THEN Rejected(f, e.err)
    ELSE Called(FsMkdirP(f, e.abs), <<Call("mkdir", e.abs)>>)

execMkdir(f, rootWithSep, rel) == MkdirChecked(f, ensureWithinRoot(rootWithSep, rel))

\* Faulty variant of MoveParentMade: the rename is left out.
MoveParentMadeNoRename(fromAbs, toAbs, parent, m) ==
    Called(m, <<Call("mkdir", parent)>>)

\* execMove after mkdir(dirname(toAbs)) returned m
MoveParentMade(fromAbs, toAbs, parent, m) ==
    IF m.err # NoErr THEN Called(m, <<Call("mkdir", parent)>>)
    ELSE Called(FsRename(m.fs, fromAbs, toAbs),
                <<Call("mkdir", parent), Call("rename", fromAbs)>>)

MoveResolved(f, fromAbs, toAbs, parent) ==
    MoveParentMade(fromAbs, toAbs, parent, FsMkdirP(f, parent))

\* Faulty variant of MoveChecked: the source is statted before the
\* destination is checked.
MoveCheckedStatFirst(f, ef, et) ==
    IF ef.err # NoErr THEN Rejected(f, ef.err)
    ELSE IF et.err # NoErr
    THEN Called([err |-> et.err, fs |-> f], <<Call("stat", ef.abs)>>)
    ELSE MoveResolved(f, ef.abs, et.abs, PathDirname(et.abs))

MoveChecked(f, ef, et) ==
    IF ef.err # NoErr THEN Rejected(f, ef.err)
    ELSE IF et.err # NoErr THEN Rejected(f, et.err)
    ELSE MoveResolved(f, ef.abs, et.abs, PathDirname(et.abs))

execMove(f, rootWithSep, fromRel, toRelPath) ==
    MoveChecked(f, ensureWithinRoot(rootWithSep, fromRel),
                ensureWithinRoot(rootWithSep, toRelPath))

DeleteChecked(f, e) ==
    IF e.err # NoErr THEN Rejected(f, e.err)
    ELSE Called(FsRmRf(f, e.abs), <<Call("rm", e.abs)>>)

execDelete(f, rootWithSep, rel) == DeleteChecked(f, ensureWithinRoot(rootWithSep, rel))

PreviewLine(verb, commit, a, b, detail) ==
    [verb |-> verb, done |-> commit, a |-> a, b |-> b, detail |-> detail]

\* a preview line without detail
NoDetail == -1

ReadCalls(abs) == <<Call("stat", abs), Call("readFile", abs)>>

\* Faulty variant of ReplaceComputed: the `if (!input.commit) return` is
\* missing, so a dry run writes the file.
ReplaceComputedNoDryReturn(f, commit, op, abs, raw, matchCount, next) ==
    IF matchCount = Diverges
    THEN ExecOut(NoErr, f, ReadCalls(abs), <<>>, TRUE)
    ELSE IF next = raw
    THEN ExecOut(NoErr, f, ReadCalls(abs),
                 <<PreviewLine("replaceText", commit, op.path, <<>>, matchCount)>>, FALSE)
    ELSE ExecOut(FsWriteFile(f, abs, next).err, FsWriteFile(f, abs, next).fs,
                 Append(ReadCalls(abs), Call("writeFile", abs)),
                 <<PreviewLine("replaceText", commit, op.path, <<>>, matchCount)>>, FALSE)

\* Faulty variant of ReplaceComputed: the `if (next === raw) return` is
\* missing, so a commit writes the file even when nothing changes.
ReplaceComputedAlwaysWrite(f, commit, op, abs, raw, matchCount, next) ==
    IF matchCount = Diverges
    THEN ExecOut(NoErr, f, ReadCalls(abs), <<>>, TRUE)
    ELSE IF ~commit
    THEN ExecOut(NoErr, f, ReadCalls(abs),
                 <<PreviewLine("replaceText", commit, op.path, <<>>, matchCount)>>, FALSE)
    ELSE ExecOut(FsWriteFile(f, abs, next).err, FsWriteFile(f, abs, next).fs,
                 Append(ReadCalls(abs), Call("writeFile", abs)),
                 <<PreviewLine("replaceText", commit, op.path, <<>>, matchCount)>>, FALSE)

\* execReplace from preview.push on: matchCount and next are computed
ReplaceComputed(f, commit, op, abs, raw, matchCount, next) ==
    IF matchCount = Diverges
    THEN ExecOut(NoErr, f, ReadCalls(abs), <<>>, TRUE)
    ELSE IF ~commit \/ next = raw
    THEN ExecOut(NoErr, f, ReadCalls(abs),
                 <<PreviewLine("replaceText", commit, op.path, <<>>, matchCount)>>, FALSE)
    ELSE ExecOut(FsWriteFile(f, abs, next).err, FsWriteFile(f, abs, next).fs,
                 Append(ReadCalls(abs), Call("writeFile", abs)),
                 <<PreviewLine("replaceText", commit, op.path, <<>>, matchCount)>>, FALSE)

\* flags.includes("g") ? flags : flags + "g", flags defaulting to "g"
EffectiveFlags(flags) ==
    IF flags = NoFlags THEN <<"g">>
    ELSE IF StrIncludes(flags, "g") THEN flags
    ELSE Append(flags, "g")

\* the regex branch, re = new RegExp(op.search, flags)
ReplaceRegex(f, commit, op, abs, raw, re) ==
    IF ~(re.ok /\ ReFlagsValid(EffectiveFlags(op.flags)))
    THEN ExecOut(HostErr("SyntaxError", op.search), f, ReadCalls(abs), <<>>, FALSE)
    ELSE ReplaceComputed(f, commit, op, abs, raw,
                         countMatchesRegex(raw, re.atoms),
                         ReReplace(raw, re.atoms, op.replace))

\* Faulty variant of ReplaceStatted: the size guard is >= instead of >.
ReplaceStattedSizeGe(f, commit, op, abs, st) ==
    IF st.err # NoErr
    THEN ExecOut(st.err, f, <<Call("stat", abs)>>, <<>>, FALSE)
    ELSE IF st.node.kind # "file"
    THEN ExecOut(HostErr("NotAFile", op.path), f, <<Call("stat", abs)>>, <<>>, FALSE)
    ELSE IF st.node.size >= MaxReplaceSize
    THEN ExecOut(HostErr("FileTooLarge", op.path), f, <<Call("stat", abs)>>, <<>>, FALSE)
    ELSE IF op.mode = "regex"
    THEN ReplaceRegex(f, commit, op, abs, st.node.data, ReParse(op.search))
    ELSE ReplaceComputed(f, commit, op, abs, st.node.data,
                         countMatchesLiteral(st.node.data, op.search),
                         StrJoin(StrSplit(st.node.data, op.search), op.replace))

\* execReplace after stat returned st
ReplaceStatted(f, commit, op, abs, st) ==
    IF st.err # NoErr
    THEN ExecOut(st.err, f, <<Call("stat", abs)>>, <<>>, FALSE)
    ELSE IF st.node.kind # "file"
    THEN ExecOut(HostErr("NotAFile", op.path), f, <<Call("stat", abs)>>, <<>>, FALSE)
    ELSE IF st.node.size > MaxReplaceSize
    THEN ExecOut(HostErr("FileTooLarge", op.path), f, <<Call("stat", abs)>>, <<>>, FALSE)
    ELSE IF op.mode = "regex"
    THEN ReplaceRegex(f, commit, op, abs, st.node.data, ReParse(op.search))
    ELSE ReplaceComputed(f, commit, op, abs, st.node.data,
                         countMatchesLiteral(st.node.data, op.search),
                         StrJoin(StrSplit(st.node.data, op.search), op.replace))

ReplaceChecked(f, commit, op, e) ==
    IF e.err # NoErr THEN Rejected(f, e.err)
    ELSE ReplaceStatted(f, commit, op, e.abs, FsStat(f, e.abs))

execReplace(f, rootWithSep, commit, op) ==
    ReplaceChecked(f, commit, op, ensureWithinRoot(rootWithSep, op.path))

\* What one pass of the loop body of applyPlan (the try/catch included) did:
\* [fs, pv, er, calls, hung] with the preview lines and the error messages
\* the operation appended.
OpOut(f, pv, err, calls, hung) ==
    [fs |-> f, pv |-> pv, er |-> IF err = NoErr THEN <<>> ELSE <<err>>,
     calls |-> calls, hung |-> hung]

\* Faulty variant of Pushed: exec* runs without the `if (input.commit)`.
PushedAlwaysExec(f, commit, pv, r) == OpOut(r.fs, pv, r.err, r.calls, FALSE)

\* mkdir, move, delete: preview.push(...), then exec* if input.commit
Pushed(f, commit, pv, r) ==
    IF commit THEN OpOut(r.fs, pv, r.err, r.calls, FALSE)
    ELSE OpOut(f, pv, NoErr, <<>>, FALSE)

\* replaceText: execReplace pushes its own line
Replaced(r) == OpOut(r.fs, r.pv, r.err, r.calls, r.hung)

ProcessOp(f, rootWithSep, commit, op) ==
    IF op.op = "mkdir"
    THEN Pushed(f, commit, <<PreviewLine("mkdir", commit, op.path, <<>>, NoDetail)>>,
                execMkdir(f, rootWithSep, op.path))
    ELSE IF op.op = "move"
    THEN Pushed(f, commit, <<PreviewLine("move", commit, op.from, op.to, NoDetail)>>,
                execMove(f, rootWithSep, op.from, op.to))
    ELSE IF op.op = "delete"
    THEN Pushed(f, commit, <<PreviewLine("delete", commit, op.path, <<>>, NoDetail)>>,
                execDelete(f, rootWithSep, op.path))
    ELSE IF op.op = "replaceText"
    THEN Replaced(execReplace(f, rootWithSep, commit, op))
    ELSE OpOut(f, <<>>, HostErr("UnknownOp", <<op.op>>), <<>>, FALSE)

\* ---------------------------------------------------------------- fixtures

\* The filesystem a session starts from:
\*   /a/b          the operator's directory
\*   /a/b/f        file "aXa"
\*   /a/b/d/g      file "aa" in directory d
\*   /a/b/big      file of 2 MiB + 1 bytes
\*   /a/b/e        file of exactly 2 MiB
\*   /a/b/l        symbolic link to /a/bc
\*   /a/bc/y       file "a" in the sibling directory whose name shares the
\*                 prefix of /a/b
kA == <<"a">>

kB == <<"b">>

kBC == <<"b", "c">>

Fs0 ==
    LET nodes == {<< <<>>, DirNode >>,
                  << <<kA>>, DirNode >>,
                  << <<kA, kB>>, DirNode >>,
                  << <<kA, kB, <<"f">>>>, FileNode(<<"a", "X", "a">>, 3) >>,
                  << <<kA, kB, <<"d">>>>, DirNode >>,
                  << <<kA, kB, <<"d">>, <<"g">>>>, FileNode(<<"a", "a">>, 2) >>,
                  << <<kA, kB, <<"b", "i", "g">>>>, FileNode(<<"a">>, MaxReplaceSize + 1) >>,
                  << <<kA, kB, <<"e">>>>, FileNode(<<"a">>, MaxReplaceSize) >>,
                  << <<kA, kB, <<"l">>>>, LinkNode(<<kA, kBC>>) >>,
                  << <<kA, kBC>>, DirNode >>,
                  << <<kA, kBC, <<"y">>>>, FileNode(<<"a">>, 1) >>}
    IN [k \in {n[1] : n \in nodes} |-> (CHOOSE n \in nodes : n[1] = k)[2]]

InitialFs == {Fs0}

\* The roots a caller supplies
Roots == {<<"/", "a", "/", "b">>, <<"/">>}

pF == <<"f">>

pNF == <<"n", "/", "f">>

pNM == <<"n", "/", "m">>

pX == <<"x">>

pD == <<"d">>

pBig == <<"b", "i", "g">>

pEdge == <<"e">>

\* "f/z": a name beneath the regular file f
pFZ == <<"f", "/", "z">>

\* "../bc/y": leaves /a/b for the sibling /a/bc
pEscape == <<".", ".", "/", "b", "c", "/", "y">>

\* "l/y": beneath the root by name, in /a/bc through the link
pLinkY == <<"l", "/", "y">>

pBlank == <<" ">>

\* The operations a plan is made of
Ops ==
    {MkdirOp(pNM), MkdirOp(pEscape), MkdirOp(pBlank), MkdirOp(pD),
     DeleteOp(pD), DeleteOp(pEscape), DeleteOp(pLinkY), DeleteOp(Dot), DeleteOp(pX),
     DeleteOp(pFZ),
     MoveOp(pF, pNF), MoveOp(pX, pNM), MoveOp(pF, pEscape), MoveOp(pEscape, pNF),
     ReplaceTextOp(pF, "literal", <<"a">>, <<"b">>, NoFlags),
     ReplaceTextOp(pF, "literal", <<"X">>, <<"X">>, NoFlags),
     ReplaceTextOp(pF, "literal", <<>>, <<"b">>, NoFlags),
     ReplaceTextOp(pEscape, "literal", <<"a">>, <<"b">>, NoFlags),
     ReplaceTextOp(pBig, "literal", <<"a">>, <<"b">>, NoFlags),
     ReplaceTextOp(pEdge, "literal", <<"a">>, <<"b">>, NoFlags),
     ReplaceTextOp(pF, "regex", <<"a">>, <<"b">>, <<>>),
     ReplaceTextOp(pF, "regex", <<"a", "*">>, <<"b">>, NoFlags),
     OtherOp("chmod")}

OpLists == UNION {[1..n -> Ops] : n \in 0..MaxOps}

\* ------------------------------------------------------------ state machine

VARIABLES
    fs,        \* the filesystem
    pc,        \* "idle": no invocation runs; "run": applyPlan is in its loop;
               \* "hung": applyPlan is in a loop that never ends
    input,     \* the ApplyPlanInput of the running (or last) invocation
    idx,       \* position in input.operations of the next operation
    preview,   \* applyPlan's preview list
    errors,    \* applyPlan's errors list
    log,       \* history: per processed operation, the filesystem before and
               \* after it, what it appended, and the calls it issued
    fsAtCall,  \* history: the filesystem when the running invocation began
    hist,      \* history: the completed invocations, in order
    call,      \* the arguments of a call of one of the pure helpers
    ret,       \* what that call returned
    walk,      \* listDirectory: its position, arguments, pending directory
               \* entries and output
    chat,      \* the chat view: stored plans, latest plan, buttons shown
    mem,       \* long-term memory: the file and the appendLongTermMemory calls
    agent      \* the agent loop and the generator that drives it

vars ==
    <<fs, pc, input, idx, preview, errors, log, fsAtCall, hist, call, ret, walk,
      chat, mem, agent>>

\* the variables of applyPlan
planVars == <<pc, input, idx, preview, errors, log, fsAtCall, hist>>

\* the variables of the renderer
uiVars == <<chat, mem, agent>>

\* no helper is being called
NoCall == [fn |-> "none"]

NoRet == [done |-> FALSE]

\* listDirectory is not running
NoWalk ==
    [pc |-> "idle", root |-> <<sep>>, max |-> 0, stack |-> <<>>, out |-> <<>>,
     err |-> NoErr]

\* the chat view before any plan was made
NoChat ==
    [pc |-> "idle", plans |-> <<>>, last |-> 0, buttons |-> {}, committed |-> <<>>]

\* no memory call was made
NoMem == [pc |-> "none"]

\* no agent loop was started
NoAgent == [pc |-> "none"]

\* the renderer is not used
UiIdle ==
    /\ chat = NoChat
    /\ mem = NoMem
    /\ agent = NoAgent

NoInput == [root |-> <<sep>>, operations |-> <<>>, commit |-> FALSE]

PlanInit ==
    /\ pc = "idle"
    /\ input = NoInput
    /\ idx = 1
    /\ preview = <<>>
    /\ errors = <<>>
    /\ log = <<>>
    /\ fsAtCall = fs
    /\ hist = <<>>

Init ==
    /\ fs \in InitialFs
    /\ PlanInit
    /\ call = NoCall
    /\ ret = NoRet
    /\ walk = NoWalk
    /\ UiIdle

\* applyPlan(input) is called: the state of a fresh invocation
Invoke(root, operations, commit) ==
    /\ pc = "idle"
    /\ input' = [root |-> root, operations |-> operations, commit |-> commit]
    /\ idx' = 1
    /\ preview' = <<>>
    /\ errors' = <<>>
    /\ log' = <<>>
    /\ fsAtCall' = fs
    /\ pc' = "run"
    /\ UNCHANGED <<fs, hist, call, ret, walk>>

\* The caller's first invocation of a session: any root, plan and mode
FirstInvoke ==
    /\ pc = "idle"
    /\ hist = <<>>
    /\ \E root \in Roots, operations \in OpLists, commit \in BOOLEAN :
          Invoke(root, operations, commit)
    /\ UNCHANGED uiVars

\* The caller invokes applyPlan once more on the root and operation list of
\* the plan its dry run produced (generatePlan's dry run stores the plan,
\* applyPlanToChat runs the stored plan)
Reinvoke ==
    /\ pc = "idle"
    /\ Len(hist) = 1
    /\ ~hist[1].input.commit
    /\ \E commit \in BOOLEAN :
          Invoke(hist[1].input.root, hist[1].input.operations, commit)
    /\ UNCHANGED uiVars

\* One iteration of `for (const op of ops)`, r what the loop body did
StepWith(r) ==
    IF r.hung
    THEN /\ pc' = "hung"
         /\ UNCHANGED <<fs, idx, preview, errors, log>>
    ELSE /\ fs' = r.fs
         /\ preview' = preview \o r.pv
         /\ errors' = errors \o r.er
         /\ log' = Append(log, [before |-> fs, after |-> r.fs,
                                pv |-> r.pv, er |-> r.er, calls |-> r.calls])
         /\ idx' = idx + 1
         /\ pc' = "run"

Step ==
    /\ pc = "run"
    /\ idx <= Len(input.operations)
    /\ StepWith(ProcessOp(fs, normalizeRoot(input.root), input.commit,
                          input.operations[idx]))
    /\ UNCHANGED <<input, fsAtCall, hist, call, ret, walk, uiVars>>

\* Faulty variant of ResultOf: ok tells whether anything was previewed.
ResultOfOkByPreview(rootWithSep, pv, er) ==
    [ok |-> Len(pv) > 0, root |-> rootWithSep, preview |-> pv, errors |-> er]

\* return { ok: errors.length === 0, root: rootWithSep, preview, errors }
ResultOf(rootWithSep, pv, er) ==
    [ok |-> Len(er) = 0, root |-> rootWithSep, preview |-> pv, errors |-> er]

Return ==
    /\ pc = "run"
    /\ idx > Len(input.operations)
    /\ hist' = Append(hist, [input |-> input,
                             result |-> ResultOf(normalizeRoot(input.root), preview, errors),
                             fsBefore |-> fsAtCall,
                             fsAfter |-> fs,
                             log |-> log])
    /\ pc' = "idle"
    /\ UNCHANGED <<fs, input, idx, preview, errors, log, fsAtCall, call, ret, walk, uiVars>>

Next ==
    \/ FirstInvoke
    \/ Reinvoke
    \/ Step
    \/ Return

Spec == Init /\ [][Next]_vars

\* ------------------------------------------ a plan over a project directory

\* "a.txt"
pATxt == <<"a", ".", "t", "x", "t">>

\* "out"
pOut == <<"o", "u", "t">>

\* "out/a.txt"
pOutATxt == pOut \o <<sep>> \o pATxt

\* "tmp"
pTmp == <<"t", "m", "p">>

\* The project directory /a/b holding the file a.txt ("aXa") and the empty
\* directory tmp
FsProj ==
    LET nodes == {<< <<>>, DirNode >>,
                  << <<kA>>, DirNode >>,
                  << <<kA, kB>>, DirNode >>,
                  << <<kA, kB, pATxt>>, FileNode(<<"a", "X", "a">>, 3) >>,
                  << <<kA, kB, pTmp>>, DirNode >>}
    IN [k \in {n[1] : n \in nodes} |-> (CHOOSE n \in nodes : n[1] = k)[2]]

\* the operations of a plan that tidies the project directory
ProjOps == {MkdirOp(pOut), MoveOp(pATxt, pOutATxt), DeleteOp(pTmp)}

ProjOpLists == UNION {[1..n -> ProjOps] : n \in 0..MaxPlanLen}

ProjInit ==
    /\ fs = FsProj
    /\ PlanInit
    /\ call = NoCall
    /\ ret = NoRet
    /\ walk = NoWalk
    /\ UiIdle

\* applyPlan is called on the project directory
ProjInvoke ==
    /\ pc = "idle"
    /\ hist = <<>>
    /\ \E operations \in ProjOpLists, commit \in BOOLEAN :
          Invoke(<<sep>> \o JoinSegs(<<kA, kB>>), operations, commit)
    /\ UNCHANGED uiVars

ProjNext ==
    \/ ProjInvoke
    \/ Step
    \/ Return

ProjSpec == ProjInit /\ [][ProjNext]_vars

\* ------------------------------------------------- plans in the chat view

\* the root directory chosen in the chat view
ChatRoot == <<sep>> \o JoinSegs(<<kA, kB>>)

\* the operations a generated plan is made of: big is over the size limit,
\* so a plan with the replaceText on it has an error in its dry run
ChatOps ==
    {MkdirOp(pNM),
     ReplaceTextOp(pF, "literal", <<"a">>, <<"b">>, NoFlags),
     ReplaceTextOp(pBig, "literal", <<"a">>, <<"b">>, NoFlags)}

ChatOpLists == UNION {[1..n -> ChatOps] : n \in 1..MaxOps}

\* the argument "latest" of /apply, or none
Latest == 0

\* what the user types after /apply: a plan id, "latest" or nothing
ApplyArgs == (1..MaxPlans) \cup {Latest}

ChatInit ==
    /\ fs \in InitialFs
    /\ PlanInit
    /\ call = NoCall
    /\ ret = NoRet
    /\ walk = NoWalk
    /\ UiIdle

\* /plan: generatePlan obtains the operations and calls applyPlan with
\* commit: false
PlanCommand ==
    /\ pc = "idle"
    /\ chat.pc = "idle"
    /\ Len(chat.plans) < MaxPlans
    /\ \E operations \in ChatOpLists : Invoke(ChatRoot, operations, FALSE)
    /\ chat' = [chat EXCEPT !.pc = "checking"]
    /\ UNCHANGED <<mem, agent>>

\* generatePlan after the dry run returned check: the plan is stored under
\* a fresh id and becomes the latest one; the message carries the confirm
\* and cancel buttons only when check.errors is empty
PlanChecked ==
    /\ pc = "idle"
    /\ chat.pc = "checking"
    /\ LET check == hist[Len(hist)].result
           planId == Len(chat.plans) + 1
       IN chat' = [chat EXCEPT
                      !.pc = "idle",
                      !.plans = Append(@, [root |-> hist[Len(hist)].input.root,
                                           operations |-> hist[Len(hist)].input.operations,
                                           forbidden |-> Len(check.errors) > 0]),
                      !.last = planId,
                      !.buttons = IF Len(check.errors) > 0 THEN @ ELSE @ \cup {planId}]
    /\ UNCHANGED <<fs, planVars, call, ret, walk, mem, agent>>

\* applyPlanToChat(sessionId, planId), entered through via: an unknown id
\* only adds a message; else the plan's buttons are cleared and applyPlan
\* is called with commit: true
applyPlanToChat(planId, via) ==
    IF planId \notin 1..Len(chat.plans)
    THEN UNCHANGED vars
    ELSE /\ Invoke(chat.plans[planId].root, chat.plans[planId].operations, TRUE)
         /\ chat' = [chat EXCEPT
                        !.pc = "applying",
                        !.buttons = @ \ {planId},
                        !.committed = Append(@, [id |-> planId, via |-> via])]
         /\ UNCHANGED <<mem, agent>>

\* the confirm button of a plan's message is clicked
ConfirmButton ==
    /\ pc = "idle"
    /\ chat.pc = "idle"
    /\ Len(chat.committed) < MaxApplies
    /\ \E planId \in chat.buttons : applyPlanToChat(planId, "button")

\* the cancel button: cancelPlanToChat clears the plan's buttons
CancelButton ==
    /\ pc = "idle"
    /\ chat.pc = "idle"
    /\ \E planId \in chat.buttons :
          chat' = [chat EXCEPT !.buttons = @ \ {planId}]
    /\ UNCHANGED <<fs, planVars, call, ret, walk, mem, agent>>

\* /apply <planId> and /apply latest; latest is lastFsPlanIds of the
\* session, else the newest stored plan, and without any plan only a hint
\* is shown
ApplyCommand ==
    /\ pc = "idle"
    /\ chat.pc = "idle"
    /\ Len(chat.committed) < MaxApplies
    /\ \E arg \in ApplyArgs :
          LET planId == IF arg # Latest THEN arg
                        ELSE IF chat.last # 0 THEN chat.last
                        ELSE Len(chat.plans)
          IN IF planId = 0 THEN UNCHANGED vars
             ELSE applyPlanToChat(planId, "command")

\* applyPlanToChat after applyPlan returned: the result message is added
PlanApplied ==
    /\ pc = "idle"
    /\ chat.pc = "applying"
    /\ chat' = [chat EXCEPT !.pc = "idle"]
    /\ UNCHANGED <<fs, planVars, call, ret, walk, mem, agent>>

ChatNext ==
    \/ PlanCommand
    \/ Step
    \/ Return
    \/ PlanChecked
    \/ ConfirmButton
    \/ CancelButton
    \/ ApplyCommand
    \/ PlanApplied

ChatSpec == ChatInit /\ [][ChatNext]_vars

\* ------------------------------------------------------ long-term memory

\* MEMORY.md does not exist
NoFile == [exists |-> FALSE, text |-> <<>>]

\* MEMORY.md holds the blocks text: the initial header and entries
FileOf(text) == [exists |-> TRUE, text |-> text]

\* the block `\n## date time\n- text\n` of call i; 0 is an earlier turn
Entry(i) == [kind |-> "entry", of |-> i]

\* ["# MEMORY", "", "长期记忆（精心维护，少而精）。", ""].join("\n")
InitialHeader == <<[kind |-> "header", of |-> 0]>>

\* the states MEMORY.md may be in when a turn ends: missing, blank, just
\* initialised, or holding an earlier entry
MemFiles == {NoFile, FileOf(<<>>), FileOf(InitialHeader), FileOf(InitialHeader \o <<Entry(0)>>)}

\* readTextIfExists(p): "" when the file cannot be read
readTextIfExists(file) == IF file.exists THEN file.text ELSE <<>>

\* an appendLongTermMemory call that has not yet run
NewCall == [pc |-> "mkdir", existing |-> <<>>]

MemoryInit ==
    /\ fs \in InitialFs
    /\ PlanInit
    /\ call = NoCall
    /\ ret = NoRet
    /\ walk = NoWalk
    /\ chat = NoChat
    /\ agent = NoAgent
    /\ \E file \in MemFiles : mem = [pc |-> "idle", file |-> file, calls |-> <<>>]

\* autoWriteMemoryFromTurn: one appendLongTerm call per new long-term line
\* is issued, then Promise.all(writes) is awaited
AutoWrite ==
    /\ mem.pc = "idle"
    /\ \E n \in 1..MaxWrites :
          mem' = [mem EXCEPT !.pc = "writing", !.calls = [i \in 1..n |-> NewCall]]
    /\ UNCHANGED <<fs, planVars, call, ret, walk, chat, agent>>

\* ensureLongTermFile of call i: await mkdir(base, { recursive: true })
EnsureMkdir(i) ==
    /\ mem.calls[i].pc = "mkdir"
    /\ mem' = [mem EXCEPT !.calls[i].pc = "read"]

\* ensureLongTermFile of call i: existing = await readTextIfExists(p), and
\* the return when existing.trim() is not empty
EnsureRead(i) ==
    /\ mem.calls[i].pc = "read"
    /\ mem' = [mem EXCEPT
                  !.calls[i].existing = readTextIfExists(mem.file),
                  !.calls[i].pc = IF readTextIfExists(mem.file) # <<>>
                                  THEN "append" ELSE "write"]

\* ensureLongTermFile of call i: await writeFile(p, initial, "utf-8")
EnsureWrite(i) ==
    /\ mem.calls[i].pc = "write"
    /\ mem' = [mem EXCEPT !.file = FileOf(InitialHeader),
                          !.calls[i].pc = "append"]

\* appendLongTermMemory of call i: await appendFile(longTermPath(), entry)
\* and the return
AppendEntry(i) ==
    /\ mem.calls[i].pc = "append"
    /\ mem' = [mem EXCEPT !.file = FileOf(Append(readTextIfExists(mem.file), Entry(i))),
                          !.calls[i].pc = "returned"]

\* one step of one of the calls in flight
MemStep ==
    /\ mem.pc = "writing"
    /\ \E i \in 1..Len(mem.calls) :
          \/ EnsureMkdir(i)
          \/ EnsureRead(i)
          \/ EnsureWrite(i)
          \/ AppendEntry(i)
    /\ UNCHANGED <<fs, planVars, call, ret, walk, chat, agent>>

\* Promise.all(writes) resolves once every call returned
WritesSettled ==
    /\ mem.pc = "writing"
    /\ \A i \in 1..Len(mem.calls) : mem.calls[i].pc = "returned"
    /\ mem' = [mem EXCEPT !.pc = "settled"]
    /\ UNCHANGED <<fs, planVars, call, ret, walk, chat, agent>>

MemoryNext ==
    \/ AutoWrite
    \/ MemStep
    \/ WritesSettled

MemorySpec == MemoryInit /\ [][MemoryNext]_vars

\* ------------------------------------------------------------ agent loop

\* AgentPhase, in the order of its declaration:
\*   ask 提问, think 思考, plan 规划, act 行动, observe 观察, wait 等待,
\*   check 检查, fix 纠错, finish 完成
AgentPhase ==
    {"ask", "think", "plan", "act", "observe", "wait", "check", "fix", "finish"}

\* null
Null == "null"

\* nextPhase(state)
nextPhase(state) ==
    IF state.phase = "ask" THEN "think"
    ELSE IF state.phase = "think" THEN "plan"
    ELSE IF state.phase = "plan" THEN "act"
    ELSE IF state.phase = "act" THEN "observe"
    ELSE IF state.phase = "observe"
         THEN (IF state.iteration = 0 THEN "think" ELSE "check")
    ELSE IF state.phase = "wait" THEN "check"
    ELSE IF state.phase = "check"
         THEN (IF state.lastError # Null THEN "fix" ELSE "finish")
    ELSE IF state.phase = "fix" THEN "act"
    ELSE "finish"

\* makePhaseText(state): which of its texts
makePhaseText(state) ==
    IF state.phase = "ask" THEN state.question
    ELSE IF state.phase = "think"
         THEN (IF state.iteration = 0 THEN "understand" ELSE "rethink")
    ELSE IF state.phase = "plan" THEN "draft"
    ELSE IF state.phase = "act"
         THEN (IF state.iteration = 0 THEN "first action" ELSE "revised action")
    ELSE IF state.phase = "observe"
         THEN (IF state.lastObservation # Null THEN state.lastObservation
               ELSE "collect")
    ELSE IF state.phase = "wait" THEN "waiting"
    ELSE IF state.phase = "check"
         THEN (IF state.lastError # Null THEN "problem found" ELSE "passed")
    ELSE IF state.phase = "fix" THEN "repair"
    ELSE "finished"

\* makeFinalAnswer(state)
makeFinalAnswer(state) == <<"completed", state.question>>

PhaseEvent(phase, text) == [type |-> "phase", phase |-> phase, text |-> text]

DoneEvent(text) == [type |-> "done", phase |-> "", text |-> text]

\* what machine.step resolves to
StepResult(state, events, done) == [state |-> state, events |-> events, done |-> done]

\* Faulty variant of shouldFail: the check never passes.
shouldFailAlways(iteration) == TRUE

\* const shouldFail = next.iteration < 2
shouldFail(iteration) == iteration < 2

\* step: the update made for the phase 观察
Observed(state) ==
    IF state.phase # "observe" THEN state
    ELSE [state EXCEPT
             !.lastObservation =
                 IF @ # Null THEN @
                 ELSE IF state.iteration = 0 THEN "first result" ELSE "second result",
             !.iteration = @ + 1]

\* step: the update made for the phase 检查, next the state so far
Checked(state, next) ==
    IF state.phase # "check" THEN next
    ELSE [next EXCEPT !.lastError = IF shouldFail(next.iteration) THEN "retry" ELSE Null]

\* step after the phase event was pushed, next the updated state
Stepped(state, next, event) ==
    IF state.phase = "finish"
    THEN StepResult([next EXCEPT !.done = TRUE],
                    <<event, DoneEvent(makeFinalAnswer([next EXCEPT !.done = TRUE]))>>,
                    TRUE)
    ELSE StepResult([next EXCEPT !.phase = nextPhase(next)], <<event>>, FALSE)

\* machine.step(state) of runAgentLoop; sleepRejected tells whether the
\* signal was aborted while sleep(500) was awaited
step(state, sleepRejected) ==
    IF state.done THEN StepResult(state, <<>>, TRUE)
    ELSE IF state.phase = "wait" /\ sleepRejected
    THEN StepResult([state EXCEPT !.done = TRUE], <<>>, TRUE)
    ELSE Stepped(state, Checked(state, Observed(state)),
                 PhaseEvent(state.phase, makePhaseText(state)))

\* the questions asked
Questions == {"q1", "q2"}

\* machine.init() of runAgentLoop
AgentInitState(question) ==
    [question |-> question, phase |-> "ask", iteration |-> 0,
     lastObservation |-> Null, lastError |-> Null, done |-> FALSE]

\* the states a machine handed to runPiMachine may start from
MachineStates ==
    [question : {"q1"}, phase : AgentPhase, iteration : 0..MaxStartIteration,
     lastObservation : {Null, "first result"}, lastError : {Null, "retry"},
     done : BOOLEAN]

\* runPiMachine entered with state = machine.init(): pc is the generator's
\* position, events/k/done the step result being iterated, aborted the
\* signal, out the events the consumer received, calls the number of
\* machine.step calls, at what out and calls were when the abort was set
Started(state) ==
    [pc |-> "top", state |-> state, events |-> <<>>, k |-> 1, done |-> FALSE,
     aborted |-> FALSE, out |-> <<>>, calls |-> 0, at |-> [out |-> 0, calls |-> 0]]

\* runAgentLoop(question, { signal }) is called
AgentInit ==
    /\ fs \in InitialFs
    /\ PlanInit
    /\ call = NoCall
    /\ ret = NoRet
    /\ walk = NoWalk
    /\ chat = NoChat
    /\ mem = NoMem
    /\ \E question \in Questions : agent = Started(AgentInitState(question))

\* runPiMachine(machine, { signal }) is called
PiInit ==
    /\ fs \in InitialFs
    /\ PlanInit
    /\ call = NoCall
    /\ ret = NoRet
    /\ walk = NoWalk
    /\ chat = NoChat
    /\ mem = NoMem
    /\ \E state \in MachineStates : agent = Started(state)

\* while (true): return when the signal is aborted, else call machine.step
PiLoopTop ==
    /\ agent.pc = "top"
    /\ agent.aborted \/ agent.calls < MaxAgentSteps
    /\ agent' = IF agent.aborted THEN [agent EXCEPT !.pc = "returned"]
                ELSE [agent EXCEPT !.pc = "stepping", !.calls = @ + 1]
    /\ UNCHANGED <<fs, planVars, call, ret, walk, chat, mem>>

\* await machine.step(state) resolves; state = nextState
PiStepped ==
    /\ agent.pc = "stepping"
    /\ LET r == step(agent.state, agent.aborted)
       IN agent' = [agent EXCEPT !.pc = "emit", !.state = r.state,
                                 !.events = r.events, !.k = 1, !.done = r.done]
    /\ UNCHANGED <<fs, planVars, call, ret, walk, chat, mem>>

\* Faulty variant of PiEmit: the signal is not tested between the events.
PiEmitNoAbortTest ==
    /\ agent.pc = "emit"
    /\ agent' = IF agent.k > Len(agent.events)
                THEN [agent EXCEPT !.pc = IF agent.done THEN "returned" ELSE "top"]
                ELSE [agent EXCEPT !.pc = "yielded",
                                   !.out = Append(@, agent.events[agent.k])]
    /\ UNCHANGED <<fs, planVars, call, ret, walk, chat, mem>>

\* for (const event of events): return when the signal is aborted, else
\* yield the event; after the last event return when done, else loop
PiEmit ==
    /\ agent.pc = "emit"
    /\ agent' = IF agent.k > Len(agent.events)
                THEN [agent EXCEPT !.pc = IF agent.done THEN "returned" ELSE "top"]
                ELSE IF agent.aborted THEN [agent EXCEPT !.pc = "returned"]
                ELSE [agent EXCEPT !.pc = "yielded",
                                   !.out = Append(@, agent.events[agent.k])]
    /\ UNCHANGED <<fs, planVars, call, ret, walk, chat, mem>>

\* the consumer asks for the next event: the generator resumes after yield
PiResume ==
    /\ agent.pc = "yielded"
    /\ agent' = [agent EXCEPT !.pc = "emit", !.k = @ + 1]
    /\ UNCHANGED <<fs, planVars, call, ret, walk, chat, mem>>

\* controller.abort(): the signal is set, at any point before the return
Abort ==
    /\ agent.pc # "returned"
    /\ ~agent.aborted
    /\ agent' = [agent EXCEPT !.aborted = TRUE,
                              !.at = [out |-> Len(agent.out), calls |-> agent.calls]]
    /\ UNCHANGED <<fs, planVars, call, ret, walk, chat, mem>>

AgentNext ==
    \/ PiLoopTop
    \/ PiStepped
    \/ PiEmit
    \/ PiResume
    \/ Abort

\* runAgentLoop: the generator over the agent's machine
AgentSpec == AgentInit /\ [][AgentNext]_vars

\* runAgentLoop with its continuations run by the event loop and a consumer
\* that keeps asking for the next event
AgentFairSpec ==
    /\ AgentSpec
    /\ WF_vars(PiLoopTop)
    /\ WF_vars(PiStepped)
    /\ WF_vars(PiEmit)
    /\ WF_vars(PiResume)

\* runPiMachine over a machine in any state
PiSpec == PiInit /\ [][AgentNext]_vars

\* ------------------------------------------- the text substitution alone

SeqsUpTo(S, n) == UNION {[1..k -> S] : k \in 0..n}

\* File contents, search strings, pattern sources, replacements and flags
Texts == SeqsUpTo({"a", "X"}, MaxTextLen)

LiteralSearches == SeqsUpTo({"a", "X"}, MaxSearchLen)

PatternSources == SeqsUpTo({"a", "X", "*"}, MaxSearchLen)

Replacements == {<<>>, <<"b">>, <<"$", "&">>}

FlagValues == {NoFlags, <<>>, <<"g">>, <<"m">>, <<"g", "g">>}

\* The arguments of the substitution of execReplace: raw is the file content
TextCalls ==
    [mode : {"literal"}, raw : Texts, search : LiteralSearches,
     replace : Replacements, flags : {NoFlags}]
    \cup
    [mode : {"regex"}, raw : Texts, search : PatternSources,
     replace : Replacements, flags : FlagValues]

\* what the substitution produced: the error thrown, whether it never
\* returned, matchCount and next
TextRet(err, hung, matchCount, next) ==
    [done |-> TRUE, err |-> err, hung |-> hung, matchCount |-> matchCount,
     next |-> next]

\* the regex branch of execReplace on its own
RegexRet(c, re, matchCount) ==
    IF ~(re.ok /\ ReFlagsValid(EffectiveFlags(c.flags)))
    THEN TextRet(HostErr("SyntaxError", c.search), FALSE, 0, c.raw)
    ELSE IF matchCount = Diverges
    THEN TextRet(NoErr, TRUE, 0, c.raw)
    ELSE TextRet(NoErr, FALSE, matchCount, ReReplace(c.raw, re.atoms, c.replace))

TextInit ==
    /\ fs \in InitialFs
    /\ PlanInit
    /\ call \in TextCalls
    /\ ret = NoRet
    /\ walk = NoWalk
    /\ UiIdle

\* matchCount = countMatchesLiteral(raw, op.search);
\* next = raw.split(op.search).join(op.replace)
LiteralCall ==
    /\ ~ret.done
    /\ call.mode = "literal"
    /\ ret' = TextRet(NoErr, FALSE, countMatchesLiteral(call.raw, call.search),
                      StrJoin(StrSplit(call.raw, call.search), call.replace))
    /\ UNCHANGED <<fs, planVars, call, walk, uiVars>>

\* re = new RegExp(...); matchCount = countMatchesRegex(raw, re);
\* next = raw.replace(re, op.replace)
RegexCall ==
    /\ ~ret.done
    /\ call.mode = "regex"
    /\ ret' = RegexRet(call, ReParse(call.search),
                       IF ReParse(call.search).ok
                       THEN countMatchesRegex(call.raw, ReParse(call.search).atoms)
                       ELSE 0)
    /\ UNCHANGED <<fs, planVars, call, walk, uiVars>>

TextNext ==
    \/ LiteralCall
    \/ RegexCall

TextSpec == TextInit /\ [][TextNext]_vars

\* ------------------------------------------------- the path sandbox alone

SandboxRoots == Roots \cup {<<"/", "a", "/", "b", "/">>}

SandboxPaths == SeqsUpTo({"/", "\\", ".", "e"}, MaxPathLen)

SandboxCalls == [root : SandboxRoots, relPath : SandboxPaths]

SandboxInit ==
    /\ fs \in InitialFs
    /\ PlanInit
    /\ call \in SandboxCalls
    /\ ret = NoRet
    /\ walk = NoWalk
    /\ UiIdle

\* abs = ensureWithinRoot(normalizeRoot(root), relPath), or the error thrown
SandboxCall ==
    /\ ~ret.done
    /\ ret' = [done |-> TRUE,
               err |-> ensureWithinRoot(normalizeRoot(call.root), call.relPath).err,
               abs |-> ensureWithinRoot(normalizeRoot(call.root), call.relPath).abs]
    /\ UNCHANGED <<fs, planVars, call, walk, uiVars>>

SandboxNext == SandboxCall

SandboxSpec == SandboxInit /\ [][SandboxNext]_vars

\* ------------------------------------------------------- directory walker

\* a device, socket or fifo
SpecialNode == [kind |-> "special", data |-> <<>>, size |-> 0, target |-> <<>>]

\* The entries a tree beneath /a/b may hold: its key and its node.  lk is a
\* link to the directory d (dangling when d is absent), dl a link to a
\* target that never exists.
WalkPool ==
    {<< <<kA, kB, <<"f">>>>, FileNode(<<"a">>, 1) >>,
     << <<kA, kB, <<"h">>>>, FileNode(<<>>, 0) >>,
     << <<kA, kB, <<"d">>>>, DirNode >>,
     << <<kA, kB, <<"d">>, <<"g">>>>, FileNode(<<"a", "a">>, 2) >>,
     << <<kA, kB, <<"d">>, <<"c">>>>, DirNode >>,
     << <<kA, kB, <<"s">>>>, SpecialNode >>,
     << <<kA, kB, <<"l", "k">>>>, LinkNode(<<kA, kB, <<"d">>>>) >>,
     << <<kA, kB, <<"d", "l">>>>, LinkNode(<<kA, <<"x">>>>) >>}

\* the filesystem holding /, /a, /a/b and the entries picked
TreeOf(picked) ==
    [k \in {<<>>, <<kA>>, <<kA, kB>>} \cup {n[1] : n \in picked} |->
        IF k \in {<<>>, <<kA>>, <<kA, kB>>} THEN DirNode
        ELSE (CHOOSE n \in picked : n[1] = k)[2]]

\* every pick in which an entry's parent directory is present
WalkTrees ==
    {TreeOf(picked) : picked \in
        {q \in SUBSET WalkPool :
            \A n \in q : Len(n[1]) = 3 \/ \E m \in q : m[1] = SubSeq(n[1], 1, 3)}}

\* the absolute path of a node key
AbsOf(key) == <<sep>> \o JoinSegs(key)

\* toRel(rootWithSep, abs): the path from the root, "/"-separated
toRel(rootKey, key) == JoinSegs(SubSeq(key, Len(rootKey) + 1, Len(key)))

\* readdir(absDir, { withFileTypes: true }): the keys of the entries of dir
Readdir(f, dir) == {k \in DOMAIN f : Len(k) = Len(dir) + 1 /\ IsPrefix(dir, k)}

FsEntry(path, type, size) == [path |-> path, type |-> type, size |-> size]

\* walk(absDir) is entered with the state w: it returns at once when the
\* cap is reached, fails when readdir fails, and else iterates the entries
EnterWalk(f, w, dir) ==
    IF Len(w.out) >= w.max THEN w
    ELSE IF dir \notin DOMAIN f \/ f[dir].kind # "dir"
    THEN [w EXCEPT !.pc = "failed", !.err = HostErr("ENOENT", AbsOf(dir))]
    ELSE [w EXCEPT !.stack = Append(w.stack, Readdir(f, dir))]

\* the body of `for (const item of items)` for the entry key, st what
\* stat(abs) returned; rest is the state with the entry taken off the items
WalkEntry(f, rest, key, st) ==
    IF st.err # NoErr
    THEN [rest EXCEPT !.pc = "failed", !.err = st.err]
    ELSE IF f[key].kind = "dir"
    THEN EnterWalk(f, [rest EXCEPT !.out = Append(rest.out,
                          FsEntry(toRel(Segs(rest.root), key), "dir", 0))], key)
    ELSE IF f[key].kind = "file"
    THEN [rest EXCEPT !.out = Append(rest.out,
              FsEntry(toRel(Segs(rest.root), key), "file", st.node.size))]
    ELSE rest

WalkInit ==
    /\ fs \in WalkTrees
    /\ PlanInit
    /\ call = NoCall
    /\ ret = NoRet
    /\ walk = NoWalk
    /\ UiIdle

\* listDirectory(root, { maxEntries }) is called and enters walk(rootWithSep)
ListInvoke ==
    /\ walk.pc = "idle"
    /\ \E max \in 1..MaxEntries :
          walk' = EnterWalk(fs, [pc |-> "walk", root |-> normalizeRoot(<<sep>> \o JoinSegs(<<kA, kB>>)),
                                 max |-> max, stack |-> <<>>, out |-> <<>>,
                                 err |-> NoErr],
                            <<kA, kB>>)
    /\ UNCHANGED <<fs, planVars, call, ret, uiVars>>

\* one entry of the innermost walk is handled, in whatever order readdir
\* gave the entries
WalkItem ==
    /\ walk.pc = "walk"
    /\ walk.stack # <<>>
    /\ Len(walk.out) < walk.max
    /\ \E key \in walk.stack[Len(walk.stack)] :
          walk' = WalkEntry(fs,
                            [walk EXCEPT !.stack[Len(walk.stack)] = @ \ {key}],
                            key, FsStat(fs, AbsOf(key)))
    /\ UNCHANGED <<fs, planVars, call, ret, uiVars>>

\* the innermost walk returns: its entries are done or the cap is reached
WalkReturn ==
    /\ walk.pc = "walk"
    /\ walk.stack # <<>>
    /\ walk.stack[Len(walk.stack)] = {} \/ Len(walk.out) >= walk.max
    /\ walk' = [walk EXCEPT !.stack = SubSeq(@, 1, Len(@) - 1)]
    /\ UNCHANGED <<fs, planVars, call, ret, uiVars>>

\* listDirectory returns out
ListReturn ==
    /\ walk.pc = "walk"
    /\ walk.stack = <<>>
    /\ walk' = [walk EXCEPT !.pc = "listed"]
    /\ UNCHANGED <<fs, planVars, call, ret, uiVars>>

WalkNext ==
    \/ ListInvoke
    \/ WalkItem
    \/ WalkReturn
    \/ ListReturn

WalkSpec == WalkInit /\ [][WalkNext]_vars

\* ------------------------------------------------------------------ claims

\* the node key of the root directory of the running invocation
RootKey == Segs(normalizeRoot(input.root))

\* the path fields of an operation
PathFields(op) ==
    IF op.op = "move" THEN {op.from, op.to}
    ELSE IF op.op \in {"mkdir", "delete", "replaceText"} THEN {op.path}
    ELSE {}

\* p has a ".." name and, taken relative to the root, names a node that is
\* not beneath the root
ResolvesOutside(root, p) ==
    /\ \E i \in 1..Len(Segs(p)) : Segs(p)[i] = DotDot
    /\ ~IsAncestor(Segs(normalizeRoot(root)),
                   NormSegs(Segs(normalizeRoot(root)) \o Segs(p), <<>>, FALSE))

HasError(er, code) == \E j \in 1..Len(er) : er[j].code = code

IssuedMutatingCall(calls) == \E j \in 1..Len(calls) : calls[j].call \in MutatingCalls

\* the details of preview lines
Details(pv) == [j \in 1..Len(pv) |-> pv[j].detail]

RECURSIVE FlattenPv(_)
FlattenPv(lg) == IF lg = <<>> THEN <<>> ELSE Head(lg).pv \o FlattenPv(Tail(lg))

DryThenDry ==
    Len(hist) = 2 /\ ~hist[1].input.commit /\ ~hist[2].input.commit

DryThenCommit ==
    Len(hist) = 2 /\ ~hist[1].input.commit /\ hist[2].input.commit

\* C1: in a commit, every node an operation creates, writes, renames or
\* removes lies strictly beneath the normalized root.
C1_Containment ==
    input.commit =>
        \A i \in 1..Len(log) :
            \A k \in Changed(log[i].before, log[i].after) : IsAncestor(RootKey, k)

\* C2: a dry run leaves the filesystem as it was and issues no mkdir,
\* rename, rm or writeFile call, whatever the operations.
C2_DryRunNoSideEffect ==
    ~input.commit =>
        /\ fs = fsAtCall
        /\ \A i \in 1..Len(log) :
              /\ log[i].after = log[i].before
              /\ ~IssuedMutatingCall(log[i].calls)

\* C2 witness: a dry run has processed a valid move and a replaceText with
\* matches (the operations that would change the disk in a commit).
C2_Witness ==
    /\ ~input.commit
    /\ Len(log) = 2
    /\ input.operations[1] = MoveOp(pF, pNF)
    /\ input.operations[2].op = "replaceText"
    /\ log[2].pv # <<>>
    /\ log[2].pv[1].detail > 0

\* C3: in both modes and for every kind, an operation with a path field
\* that has ".." names and resolves outside the root adds a path-escape
\* error and changes nothing.
C3_EscapeReported ==
    \A i \in 1..Len(log) :
        (\E p \in PathFields(input.operations[i]) : ResolvesOutside(input.root, p))
        => /\ HasError(log[i].er, "PathEscape")
           /\ log[i].after = log[i].before

\* C4: no operation stops the batch: every operation reached is processed
\* and contributes an entry to preview or errors, and the invocation goes on
\* to return a Result (it is never stuck inside an operation).
C4_FailureIsolation ==
    /\ pc # "hung"
    /\ Len(log) = idx - 1
    /\ \A i \in 1..Len(log) : Len(log[i].pv) + Len(log[i].er) >= 1

\* C5: in a commit, an operation that adds an error has changed nothing.
C5_PerOperationAtomicity ==
    input.commit =>
        \A i \in 1..Len(log) :
            log[i].er # <<>> => log[i].after = log[i].before

\* C6: two dry runs in a row return the same preview and the same errors,
\* and the filesystem after the second is the one before the first.
C6_DryRunIdempotent ==
    DryThenDry =>
        /\ hist[2].result.preview = hist[1].result.preview
        /\ hist[2].result.errors = hist[1].result.errors
        /\ hist[2].fsAfter = hist[1].fsBefore

\* C6 witness: two dry runs of a plan that counts matches in a file and
\* also reports an error.
C6_Witness ==
    /\ DryThenDry
    /\ hist[2].result.errors # <<>>
    /\ \E j \in 1..Len(hist[2].result.preview) : hist[2].result.preview[j].detail > 0

\* C7: a dry run and the commit after it report the same match count for
\* every replaceText operation of the list.
C7_ReplaceCountsAgree ==
    DryThenCommit =>
        \A i \in 1..Len(hist[1].input.operations) :
            hist[1].input.operations[i].op = "replaceText"
            => Details(hist[2].log[i].pv) = Details(hist[1].log[i].pv)

\* C8: an operation the dry run reports without an error is reported
\* without an error by the commit of the same list on the same filesystem.
C8_DryRunPredictsCommit ==
    DryThenCommit =>
        /\ \A i \in 1..Len(hist[1].log) :
              hist[1].log[i].er = <<>> => hist[2].log[i].er = <<>>
        /\ hist[1].result.ok => hist[2].result.ok

\* C9: in every Result returned, ok is true exactly when errors is empty.
C9_OkIffNoErrors ==
    \A n \in 1..Len(hist) :
        hist[n].result.ok <=> hist[n].result.errors = <<>>

\* C9 witness: a session whose dry run returned ok and whose commit returned
\* errors: both values of ok have been returned.
C9_Witness ==
    /\ DryThenCommit
    /\ hist[1].result.ok
    /\ hist[1].result.errors = <<>>
    /\ ~hist[2].result.ok
    /\ hist[2].result.errors # <<>>

\* C10: preview holds at most one line per operation, in submission order,
\* and an operation rejected by the path sandbox or for its tag adds exactly
\* one error and no preview line.
C10_ResultShape ==
    /\ preview = FlattenPv(log)
    /\ \A i \in 1..Len(log) :
          /\ Len(log[i].pv) <= 1
          /\ (\/ HasError(log[i].er, "PathEscape")
              \/ HasError(log[i].er, "EmptyPath")
              \/ HasError(log[i].er, "UnknownOp"))
             => (Len(log[i].er) = 1 /\ log[i].pv = <<>>)

\* C11: a literal replaceText with an empty search string reports a match
\* count of zero and leaves the filesystem (the file's content) unchanged,
\* in a dry run and in a commit.
C11_EmptySearchNoOp ==
    \A i \in 1..Len(log) :
        (/\ input.operations[i].op = "replaceText"
         /\ input.operations[i].mode = "literal"
         /\ input.operations[i].search = <<>>)
        => /\ \A j \in 1..Len(log[i].pv) : log[i].pv[j].detail = 0
           /\ log[i].after = log[i].before

\* the 0-based positions of the non-overlapping occurrences of search in
\* text, scanning left to right from position i
RECURSIVE ScanOccurrences(_, _, _)
ScanOccurrences(text, search, i) ==
    IF i + Len(search) > Len(text) THEN <<>>
    ELSE IF SubSeq(text, i + 1, i + Len(search)) = search
         THEN <<i>> \o ScanOccurrences(text, search, i + Len(search))
         ELSE ScanOccurrences(text, search, i + 1)

\* text from position i on, with the occurrences at the positions occ (each
\* len long) replaced
RECURSIVE ReplaceOccurrences(_, _, _, _, _)
ReplaceOccurrences(text, occ, len, replace, i) ==
    IF occ = <<>> THEN SubSeq(text, i + 1, Len(text))
    ELSE SubSeq(text, i + 1, occ[1]) \o replace
         \o ReplaceOccurrences(text, Tail(occ), len, replace, occ[1] + len)

\* C12: in literal mode with a non-empty search string, the count is the
\* number of non-overlapping occurrences found scanning left to right, and
\* the output is the text with exactly those occurrences replaced.
C12_LiteralCountAndReplaceAgree ==
    (ret.done /\ call.mode = "literal" /\ call.search # <<>>)
    => /\ ret.matchCount = Len(ScanOccurrences(call.raw, call.search, 0))
       /\ ret.next = ReplaceOccurrences(call.raw,
                                        ScanOccurrences(call.raw, call.search, 0),
                                        Len(call.search), call.replace, 0)
       /\ (call.raw = <<"a", "a", "a">> /\ call.search = <<"a", "a">>)
          => ret.matchCount = 1

\* C12 witness: content "aXaXa", search "a", replace "b" gave count 3 and
\* "bXbXb".
C12_Witness ==
    /\ ret.done
    /\ call.mode = "literal"
    /\ call.raw = <<"a", "X", "a", "X", "a">>
    /\ call.search = <<"a">>
    /\ call.replace = <<"b">>
    /\ ret.matchCount = 3
    /\ ret.next = <<"b", "X", "b", "X", "b">>

\* the number of substitutions raw.replace makes with a global regex: the
\* matches found from lastIndex li on, resuming one character further after
\* an empty match
RECURSIVE ReSubstitutions(_, _, _)
ReSubstitutions(atoms, text, li) ==
    IF ReExec(atoms, text, li).index = -1 THEN 0
    ELSE 1 + ReSubstitutions(atoms, text,
                             IF ReExec(atoms, text, li).end = ReExec(atoms, text, li).index
                             THEN ReExec(atoms, text, li).end + 1
                             ELSE ReExec(atoms, text, li).end)

\* C13: whatever the flags (absent, empty, without "g"), a regex replaceText
\* with a valid pattern reports a count, and the count is the number of
\* substitutions made: every match is counted and replaced.
C13_PatternAlwaysGlobal ==
    (ret.done /\ call.mode = "regex" /\ ret.err = NoErr)
    => /\ ~ret.hung
       /\ ret.matchCount = ReSubstitutions(ReParse(call.search).atoms, call.raw, 0)

\* the absolute path operation i of the running invocation addresses
OpAbs(i) == ensureWithinRoot(normalizeRoot(input.root), input.operations[i].path).abs

\* the content of the file operation i addresses, before the operation
RawBefore(i) == FsStat(log[i].before, OpAbs(i)).node.data

\* the output a replaceText operation computes from the content raw
ComputedNext(op, raw) ==
    IF op.mode = "regex"
    THEN ReReplace(raw, ReParse(op.search).atoms, op.replace)
    ELSE StrJoin(StrSplit(raw, op.search), op.replace)

Issued(calls, name) == \E j \in 1..Len(calls) : calls[j].call = name

\* C14: in a commit, a replaceText whose computed output equals the file's
\* content issues no writeFile call, whatever its match count, and still
\* emits its preview line.
C14_NoSpuriousWrite ==
    input.commit =>
        \A i \in 1..Len(log) :
            (/\ input.operations[i].op = "replaceText"
             /\ log[i].er = <<>>
             /\ Issued(log[i].calls, "readFile"))
            => LET raw == RawBefore(i)
               IN ComputedNext(input.operations[i], raw) = raw
                  => /\ ~Issued(log[i].calls, "writeFile")
                     /\ Len(log[i].pv) = 1
                     /\ log[i].after = log[i].before

\* C14 witness: a commit has run a replaceText whose replace equals its
\* search on a file with one match: count 1, a preview line, no write.
C14_Witness ==
    /\ input.commit
    /\ Len(log) >= 1
    /\ input.operations[1] = ReplaceTextOp(pF, "literal", <<"X">>, <<"X">>, NoFlags)
    /\ log[1].pv # <<>>
    /\ log[1].pv[1].detail = 1
    /\ ~Issued(log[1].calls, "writeFile")

\* operation i is a replaceText whose path the sandbox accepts and names a
\* regular file
ReplacesFile(i) ==
    /\ input.operations[i].op = "replaceText"
    /\ ensureWithinRoot(normalizeRoot(input.root), input.operations[i].path).err = NoErr
    /\ FsStat(log[i].before, OpAbs(i)).err = NoErr
    /\ FsStat(log[i].before, OpAbs(i)).node.kind = "file"

\* C15: in both modes, a replaceText on a file larger than 2 MiB adds one
\* error and no preview line and neither reads nor writes the file; a file
\* of exactly 2 MiB is not refused for its size and is read.
C15_SizeGuard ==
    \A i \in 1..Len(log) :
        input.operations[i].op = "replaceText" =>
            LET e == ensureWithinRoot(normalizeRoot(input.root), input.operations[i].path)
                st == FsStat(log[i].before, e.abs)
            IN (e.err = NoErr /\ st.err = NoErr /\ st.node.kind = "file") =>
                /\ st.node.size > 2 * 1024 * 1024
                   => /\ Len(log[i].er) = 1
                      /\ log[i].er[1].code = "FileTooLarge"
                      /\ log[i].pv = <<>>
                      /\ ~Issued(log[i].calls, "readFile")
                      /\ ~Issued(log[i].calls, "writeFile")
                      /\ log[i].after = log[i].before
                /\ st.node.size = 2 * 1024 * 1024
                   => /\ ~HasError(log[i].er, "FileTooLarge")
                      /\ Issued(log[i].calls, "readFile")
                      /\ Len(log[i].pv) = 1

\* C15 witness: a commit has refused the file of 2 MiB + 1 bytes and then
\* replaced in the file of exactly 2 MiB.
C15_Witness ==
    /\ input.commit
    /\ Len(log) = 2
    /\ input.operations[1].path = pBig
    /\ input.operations[2].path = pEdge
    /\ ReplacesFile(1)
    /\ ReplacesFile(2)
    /\ HasError(log[1].er, "FileTooLarge")
    /\ Issued(log[2].calls, "writeFile")

\* the sandbox accepts the path of operation i
Accepted(i) ==
    ensureWithinRoot(normalizeRoot(input.root), input.operations[i].path).err = NoErr

\* abs names a node of f (a link counts, wherever it leads)
Exists(f, abs) ==
    /\ RealPath(f, abs, FALSE).code = "OK"
    /\ RealPath(f, abs, FALSE).key \in DOMAIN f

\* C16: in a commit, a delete of a path that does not exist adds no error
\* and one preview line and changes nothing; the same delete twice in one
\* plan ends in the state one delete ends in, without an error.
C16_IdempotentDelete ==
    input.commit =>
        /\ \A i \in 1..Len(log) :
              (/\ input.operations[i].op = "delete"
               /\ Accepted(i)
               /\ ~Exists(log[i].before, OpAbs(i)))
              => /\ log[i].er = <<>>
                 /\ Len(log[i].pv) = 1
                 /\ log[i].after = log[i].before
        /\ (/\ Len(log) = 2
            /\ input.operations[1].op = "delete"
            /\ input.operations[2] = input.operations[1]
            /\ Accepted(1))
           => /\ log[2].after = log[1].after
              /\ log[1].er = <<>>
              /\ log[2].er = <<>>

\* abs names a directory of f
IsDir(f, abs) == FsStat(f, abs).err = NoErr /\ FsStat(f, abs).node.kind = "dir"

\* nothing stands in the way of making the directory abs: the names on the
\* way that exist are directories (or links to directories)
Unobstructed(f, abs) ==
    LET r == RealPath(f, abs, TRUE)
    IN /\ r.code \in {"OK", "ENOENT"}
       /\ (r.code = "OK" /\ r.key \in DOMAIN f) => f[r.key].kind = "dir"
       /\ \A k \in DOMAIN f : f[k].kind = "link" => f[k].target \in DOMAIN f

\* C17: in a commit, a mkdir creates the directory and its missing
\* ancestors (and nothing else); on an existing directory it adds no
\* error, emits one preview line and changes nothing; the same mkdir twice
\* in one plan ends in the state one mkdir ends in.
C17_IdempotentMkdir ==
    input.commit =>
        /\ \A i \in 1..Len(log) :
              input.operations[i].op = "mkdir" =>
                  LET e == ensureWithinRoot(normalizeRoot(input.root),
                                            input.operations[i].path)
                      before == log[i].before
                      after == log[i].after
                  IN (e.err = NoErr /\ Unobstructed(before, e.abs))
                     => /\ log[i].er = <<>>
                        /\ Len(log[i].pv) = 1
                        /\ IsDir(after, e.abs)
                        /\ \A k \in DOMAIN before :
                              k \in DOMAIN after /\ after[k] = before[k]
                        /\ \A k \in (DOMAIN after) \ (DOMAIN before) :
                              /\ after[k] = DirNode
                              /\ IsPrefix(k, RealPath(after, e.abs, TRUE).key)
                        /\ IsDir(before, e.abs) => after = before
        /\ (/\ Len(log) = 2
            /\ input.operations[1].op = "mkdir"
            /\ input.operations[2] = input.operations[1]
            /\ Accepted(1)
            /\ Unobstructed(log[1].before, OpAbs(1)))
           => /\ log[2].after = log[1].after
              /\ log[2].er = <<>>

\* C17 witness: a commit ran mkdir "n/m" twice: the first created n and
\* n/m, the second changed nothing and added no error.
C17_Witness ==
    /\ input.commit
    /\ input.root = <<"/", "a", "/", "b">>
    /\ Len(log) = 2
    /\ input.operations = <<MkdirOp(pNM), MkdirOp(pNM)>>
    /\ (DOMAIN log[1].after) \ (DOMAIN log[1].before)
         = {<<kA, kB, <<"n">>>>, <<kA, kB, <<"n">>, <<"m">>>>}
    /\ log[2].after = log[2].before
    /\ log[2].er = <<>>
    /\ Len(log[2].pv) = 1

\* the names of the root of the sandbox call
CallRootSegs == Segs(normalizeRoot(call.root))

Listable(f) ==
    {k \in DOMAIN f : IsAncestor(<<kA, kB>>, k) /\ f[k].kind \in {"file", "dir"}}

\* the node keys of the entries of out
ListedKeys(out) == {<<kA, kB>> \o Segs(out[j].path) : j \in 1..Len(out)}

\* C19: listDirectory returns without error, and the list has exactly
\* min(maxEntries, number of regular files and directories beneath the
\* root) entries; the cap counts entries across the whole walk.
C19_WalkerCap ==
    /\ walk.pc # "failed"
    /\ Len(walk.out) <= walk.max
    /\ walk.pc = "listed"
       => Len(walk.out) = (IF walk.max < Cardinality(Listable(fs))
                           THEN walk.max ELSE Cardinality(Listable(fs)))

\* C20: an entry that is neither a regular file nor a directory never
\* appears in the output and never makes listDirectory fail, and the
\* regular files and directories are still listed.
C20_SkipsSpecialEntries ==
    /\ walk.pc # "failed"
    /\ ListedKeys(walk.out) \subseteq Listable(fs)
    /\ (walk.pc = "listed" /\ Len(walk.out) < walk.max)
       => ListedKeys(walk.out) = Listable(fs)

\* the entries of out are pairwise distinct paths
NoDuplicates(out) ==
    \A i, j \in 1..Len(out) : out[i].path = out[j].path => i = j

\* the entry is what the node at its path is: a directory with size 0 or a
\* regular file with its size, under a root-relative path
EntryFaithful(f, e) ==
    LET key == <<kA, kB>> \o Segs(e.path) IN
    /\ e.path # <<>>
    /\ ~IsAbsolute(e.path)
    /\ Segs(e.path)[1] # DotDot
    /\ key \in DOMAIN f
    /\ e.type = "dir" => f[key].kind = "dir" /\ e.size = 0
    /\ e.type = "file" => f[key].kind = "file" /\ e.size = f[key].size
    /\ e.type \in {"dir", "file"}

\* C21: listDirectory returns without error, and when the cap is not
\* reached the list holds exactly one entry for every directory and every
\* regular file beneath the root, the root excluded, without duplicates;
\* a directory has type dir and size 0 and every path is root-relative.
C21_WalkerComplete ==
    /\ walk.pc # "failed"
    /\ (walk.pc = "listed" /\ Len(walk.out) < walk.max)
       => /\ ListedKeys(walk.out) = Listable(fs)
          /\ Len(walk.out) = Cardinality(Listable(fs))
          /\ NoDuplicates(walk.out)
          /\ \A j \in 1..Len(walk.out) : EntryFaithful(fs, walk.out[j])

\* the plan [mkdir out, move a.txt -> out/a.txt, delete tmp]
TidyPlan == <<MkdirOp(pOut), MoveOp(pATxt, pOutATxt), DeleteOp(pTmp)>>

\* C22: committing [mkdir out, move a.txt to out/a.txt, delete tmp] on a
\* root holding the file a.txt and the empty directory tmp returns ok=true
\* with exactly the three preview lines in that order; afterwards out/a.txt
\* holds a.txt's former content and neither a.txt nor tmp exists.
C22_EndToEndCommit ==
    \A h \in 1..Len(hist) :
        (/\ hist[h].input.operations = TidyPlan
         /\ hist[h].input.commit
         /\ hist[h].fsBefore = FsProj)
        => /\ hist[h].result.ok
           /\ hist[h].result.errors = <<>>
           /\ hist[h].result.preview =
                 <<PreviewLine("mkdir", TRUE, pOut, <<>>, NoDetail),
                   PreviewLine("move", TRUE, pATxt, pOutATxt, NoDetail),
                   PreviewLine("delete", TRUE, pTmp, <<>>, NoDetail)>>
           /\ <<kA, kB, pOut, pATxt>> \in DOMAIN hist[h].fsAfter
           /\ hist[h].fsAfter[<<kA, kB, pOut, pATxt>>] = FsProj[<<kA, kB, pATxt>>]
           /\ hist[h].fsAfter[<<kA, kB, pOut>>].kind = "dir"
           /\ <<kA, kB, pATxt>> \notin DOMAIN hist[h].fsAfter
           /\ <<kA, kB, pTmp>> \notin DOMAIN hist[h].fsAfter

C22_Witness ==
    /\ Len(hist) = 1
    /\ hist[1].input.operations = TidyPlan
    /\ hist[1].input.commit
    /\ hist[1].fsBefore = FsProj
    /\ fs # FsProj

\* ensureWithinRoot throws for a path field of the operation
SandboxRejects(root, op) ==
    \E p \in PathFields(op) : ensureWithinRoot(normalizeRoot(root), p).err # NoErr

\* C23: the sandbox check of every path field of an operation is over
\* before the operation's first filesystem call: an operation with a
\* rejected path field (either end of a move, the path of a replaceText)
\* issues no filesystem call, neither mkdir, rename, stat nor readFile, and
\* leaves the filesystem as it was.
C23_ValidationPrecedesIO ==
    \A i \in 1..Len(log) :
        SandboxRejects(input.root, input.operations[i])
        => /\ log[i].calls = <<>>
           /\ log[i].after = log[i].before

C23_Witness ==
    /\ input.commit
    /\ Len(log) = 2
    /\ input.operations[1] = MoveOp(pF, pEscape)
    /\ input.operations[2].op = "replaceText"
    /\ input.operations[2].path = pEscape
    /\ HasError(log[1].er, "PathEscape")
    /\ HasError(log[2].er, "PathEscape")
    /\ log[1].calls = <<>>
    /\ log[2].calls = <<>>
    /\ fs = fsAtCall

\* C24: applyPlan terminates: no operation of a finite list, a regex
\* replaceText whose pattern can match the empty string included, puts it
\* in a loop that never ends.
C24_Terminates == pc # "hung"

\* abs names a node strictly beneath the root
StrictlyBeneath(rootWithSep, abs) ==
    /\ StartsWith(abs, rootWithSep)
    /\ Len(abs) > Len(rootWithSep)

\* C25: for every root, each path ensureWithinRoot accepts for a committed
\* operation is a strict descendant of the root, never the root itself
\* (".", "a/..", "./"), and the root directory is never removed, renamed or
\* replaced.
C25_RootNeverTarget ==
    /\ input.commit
       => \A i \in 1..Len(log) :
             \A p \in PathFields(input.operations[i]) :
                LET e == ensureWithinRoot(normalizeRoot(input.root), p) IN
                e.err = NoErr => StrictlyBeneath(normalizeRoot(input.root), e.abs)
    /\ RootKey \in DOMAIN fs
    /\ fs[RootKey].kind = "dir"

\* C26: a plan whose dry run reported an error is never committed from the
\* chat view, by the confirm button, /apply <planId> or /apply latest.
C26_ForbiddenPlanNeverCommitted ==
    \A j \in 1..Len(chat.committed) :
        ~chat.plans[chat.committed[j].id].forbidden

\* the blocks of MEMORY.md hold the entry of call i
HasEntry(file, i) == \E j \in 1..Len(file.text) : file.text[j] = Entry(i)

\* C27: whatever the interleaving of the appendLongTermMemory calls issued
\* together, MEMORY.md holds the entry of every call that returned, also
\* when it was missing or blank at the start: the initial-header write
\* never overwrites an entry.
C27_NoLostAppend ==
    mem.pc \in {"writing", "settled"}
    => \A i \in 1..Len(mem.calls) :
          mem.calls[i].pc = "returned" => HasEntry(mem.file, i)

\* the positions of the 观察 phase events received
ObservePositions == {j \in 1..Len(agent.out) : agent.out[j].phase = "observe"}

\* C28: the event after the first 观察 phase event is the phase 思考, and
\* the event after every later 观察 phase event is the phase 检查.
C28_PhaseAfterObserve ==
    \A j \in ObservePositions :
        j < Len(agent.out)
        => agent.out[j + 1].phase =
              (IF \A i \in ObservePositions : j <= i THEN "think" ELSE "check")

\* the last event received is the done event with the final answer, the
\* one before it the phase 完成
EndsWithDone ==
    /\ Len(agent.out) >= 3
    /\ agent.out[Len(agent.out)] = DoneEvent(<<"completed", agent.state.question>>)
    /\ agent.out[Len(agent.out) - 1].type = "phase"
    /\ agent.out[Len(agent.out) - 1].phase = "finish"

\* the events received so far are well formed: they start with the phase
\* 提问, and a done event is the last event, follows the phase 完成 and
\* carries the final answer
WellFormedEvents ==
    /\ agent.out # <<>>
       => /\ agent.out[1].type = "phase"
          /\ agent.out[1].phase = "ask"
    /\ \A j \in 1..Len(agent.out) :
          agent.out[j].type = "done" => j = Len(agent.out) /\ EndsWithDone

\* C29: without an abort runAgentLoop terminates: the generator returns,
\* having emitted phase events that start with 提问 and end with 完成,
\* followed by exactly one done event carrying the final answer; nothing
\* is emitted after done.
C29_TerminatesWithDone ==
    /\ [](~agent.aborted => WellFormedEvents)
    /\ [](agent.pc = "returned" /\ ~agent.aborted => EndsWithDone)
    /\ <>(agent.aborted \/ agent.pc = "returned")

C29_Witness ==
    /\ agent.pc = "returned"
    /\ ~agent.aborted
    /\ Len(agent.out) = 12
    /\ agent.out[12].type = "done"
    /\ agent.calls = 11

\* C30: once the signal is aborted the consumer receives no further event
\* and machine.step is not called again, wherever the generator was: before
\* a step, while a step is awaited, or between two events of one step, the
\* events not yet yielded being dropped.
C30_AbortStopsStream ==
    agent.aborted
    => /\ Len(agent.out) = agent.at.out
       /\ agent.calls = agent.at.calls

\* the abort came between the two events of the last step, and the done
\* event was dropped
C30_Witness ==
    /\ agent.aborted
    /\ agent.pc = "returned"
    /\ Len(agent.events) = 2
    /\ agent.k = 2
    /\ agent.out[Len(agent.out)].type = "phase"
    /\ agent.out[Len(agent.out)].phase = "finish"

====
